---------------------------- MODULE Spec2Model ----------------------------
(***************************************************************************)
(* A model of the Montague semantics toolkit (cstuartroe/montague).        *)
(*                                                                         *)
(*   - the model interpreter, montague/interpreter.py: interpret_formula   *)
(*     over a WorldModel (individuals, assignments);                       *)
(*   - the hand-written parser, montague/parsing.py: tokenize,             *)
(*     IteratorWithMemory and the recursive descent of parse_formula;      *)
(*   - the substitution engine, the beta-reducer, the combinator, the      *)
(*     translator and the printer of montague/formula.py and               *)
(*     montague/translator.py.  Those two files are not part of the        *)
(*     source tree at hand; they are modelled from spec.md sections        *)
(*     4.1 - 4.5 and from the tests in src/test.                           *)
(*                                                                         *)
(* Formula trees are records carrying the field names the interpreter      *)
(* reads (value, left, right, operand, caller, arg, symbol, body).         *)
(***************************************************************************)
EXTENDS Integers, Sequences, FiniteSets, TLC

VARIABLES
    individuals,   \* WorldModel.individuals: the ordered domain
    assignments,   \* WorldModel.assignments: the dict  name -> value
    assigned,      \* the names the host bound when it built the model
    pc,            \* "idle": no call in progress; "returned": a call ended
    formula,       \* the argument of the last call of interpret_formula
    before,        \* the assignments when that call was made
    result,        \* how that call ended: [st, val]
    call,          \* the pure function under application and its arguments
    ret,           \* what that application returned
    term,          \* the formula a running reduction has reached
    tick,          \* the parity of the substitution steps made so far
    gen,           \* the generator tokenize(formula) being drawn from
    iter,          \* an IteratorWithMemory: its iterator and its memory
    hist           \* the calls made on gen or iter so far, and their outcomes

interp_vars == <<individuals, assignments, assigned, pc, formula, before,
                 result>>
pure_vars   == <<call, ret, term, tick>>
parse_vars  == <<gen, iter, hist>>
vars        == <<interp_vars, pure_vars, parse_vars>>

---------------------------------------------------------------------------
(* Formula trees.                                                          *)

Var(name)             == [tag |-> "Var", value |-> name]
And(l, r)             == [tag |-> "And", left |-> l, right |-> r]
Or(l, r)              == [tag |-> "Or", left |-> l, right |-> r]
IfThen(l, r)          == [tag |-> "IfThen", left |-> l, right |-> r]
IfAndOnlyIf(l, r)     == [tag |-> "IfAndOnlyIf", left |-> l, right |-> r]
Not(p)                == [tag |-> "Not", operand |-> p]
Lambda(param, b)      == [tag |-> "Lambda", parameter |-> param, body |-> b]
Call(c, a)            == [tag |-> "Call", caller |-> c, arg |-> a]
ForAll(s, b)          == [tag |-> "ForAll", symbol |-> s, body |-> b]
Exists(s, b)          == [tag |-> "Exists", symbol |-> s, body |-> b]

---------------------------------------------------------------------------
(* Python values held by the assignments and returned by the interpreter:  *)
(* True/False, an individual (an opaque hashable object that is neither    *)
(* falsy nor a container), a set of individuals, and None.                 *)

VBool(b) == [k |-> "bool", b |-> b]
VInd(i)  == [k |-> "ind", i |-> i]
VSet(s)  == [k |-> "set", s |-> s]
VNone    == [k |-> "none"]

\* Python truth value testing, as applied by `and`, `or`, `not` and `if`.
Truthy(v) ==
    CASE v.k = "bool" -> v.b
      [] v.k = "ind"  -> TRUE
      [] v.k = "set"  -> v.s # {}
      [] v.k = "none" -> FALSE

\* dict.get(name): the value, or None when the key is absent.
Get(asg, name) == IF name \in DOMAIN asg THEN asg[name] ELSE VNone

\* dict[name] = v
Put(asg, name, v) ==
    [n \in (DOMAIN asg) \cup {name} |-> IF n = name THEN v ELSE asg[n]]

\* The way a call ends: a returned value, or a raised exception; in both
\* cases with the dict as the call left it.
Return(v, asg)   == [st |-> "ok", val |-> v, asg |-> asg]
Raise(exc, asg)  == [st |-> exc, val |-> VNone, asg |-> asg]

\* `arg in caller`
Contains(caller, a, asg) ==
    IF caller.k = "set"
    THEN Return(VBool(a.k = "ind" /\ a.i \in caller.s), asg)
    ELSE Raise("TypeError", asg)

RECURSIVE interpret_formula(_, _, _)

\* if isinstance(formula, Var): return model.assignments[formula.value]
interpret_Var(f, inds, asg) ==
    IF f.value \in DOMAIN asg
    THEN Return(asg[f.value], asg)
    ELSE Raise("KeyError", asg)

\* return interpret_formula(left) and interpret_formula(right)
interpret_And(f, inds, asg) ==
    LET l == interpret_formula(f.left, inds, asg)
    IN  IF l.st # "ok" \/ ~Truthy(l.val) THEN l
        ELSE interpret_formula(f.right, inds, l.asg)

\* return interpret_formula(left) or interpret_formula(right)
interpret_Or(f, inds, asg) ==
    LET l == interpret_formula(f.left, inds, asg)
    IN  IF l.st # "ok" \/ Truthy(l.val) THEN l
        ELSE interpret_formula(f.right, inds, l.asg)

\* A slip in the implication: `not (left or right)`.
interpret_IfThen_NotOfOr(f, inds, asg) ==
    LET l == interpret_formula(f.left, inds, asg)
    IN  IF l.st # "ok" THEN l
        ELSE IF Truthy(l.val) THEN Return(VBool(FALSE), l.asg)
        ELSE LET r == interpret_formula(f.right, inds, l.asg)
             IN  IF r.st # "ok" THEN r
                 ELSE Return(VBool(~Truthy(r.val)), r.asg)

\* return not interpret_formula(left) or interpret_formula(right)
interpret_IfThen(f, inds, asg) ==
    LET l == interpret_formula(f.left, inds, asg)
    IN  IF l.st # "ok" THEN l
        ELSE IF ~Truthy(l.val) THEN Return(VBool(TRUE), l.asg)
        ELSE interpret_formula(f.right, inds, l.asg)

\* caller = ...; arg = ...; return arg in caller
interpret_Call(f, inds, asg) ==
    LET c == interpret_formula(f.caller, inds, asg)
    IN  IF c.st # "ok" THEN c
        ELSE LET a == interpret_formula(f.arg, inds, c.asg)
             IN  IF a.st # "ok" THEN a
                 ELSE Contains(c.val, a.val, a.asg)

\* return not interpret_formula(formula.operand, model)
interpret_Not(f, inds, asg) ==
    LET p == interpret_formula(f.operand, inds, asg)
    IN  IF p.st # "ok" THEN p
        ELSE Return(VBool(~Truthy(p.val)), p.asg)

RECURSIVE ForAllLoop(_, _, _, _, _)
RECURSIVE ExistsLoop(_, _, _, _, _)

\* A slip in the loop: the verdict is returned after the first individual.
ForAllLoop_FirstOnly(f, inds, old_value, i, asg) ==
    IF i > Len(inds)
    THEN Return(VBool(TRUE), Put(asg, f.symbol, old_value))
    ELSE LET r == interpret_formula(f.body, inds,
                                    Put(asg, f.symbol, VInd(inds[i])))
         IN  IF r.st # "ok" THEN r
             ELSE Return(VBool(Truthy(r.val)),
                         Put(r.asg, f.symbol, old_value))

\* for individual in model.individuals: ... of the ForAll branch, from the
\* i-th individual on, and the statements after the loop.
ForAllLoop(f, inds, old_value, i, asg) ==
    IF i > Len(inds)
    THEN Return(VBool(TRUE), Put(asg, f.symbol, old_value))
    ELSE LET r == interpret_formula(f.body, inds,
                                    Put(asg, f.symbol, VInd(inds[i])))
         IN  IF r.st # "ok" THEN r
             ELSE IF ~Truthy(r.val)
                  THEN Return(VBool(FALSE), Put(r.asg, f.symbol, old_value))
                  ELSE ForAllLoop(f, inds, old_value, i + 1, r.asg)

\* for individual in model.individuals: ... of the Exists branch, from the
\* i-th individual on, and the statements after the loop.
ExistsLoop(f, inds, old_value, i, asg) ==
    IF i > Len(inds)
    THEN Return(VBool(FALSE), Put(asg, f.symbol, old_value))
    ELSE LET r == interpret_formula(f.body, inds,
                                    Put(asg, f.symbol, VInd(inds[i])))
         IN  IF r.st # "ok" THEN r
             ELSE IF Truthy(r.val)
                  THEN Return(VBool(TRUE), Put(r.asg, f.symbol, old_value))
                  ELSE ExistsLoop(f, inds, old_value, i + 1, r.asg)

\* old_value = model.assignments.get(formula.symbol), then the loop.
interpret_ForAll(f, inds, asg) ==
    ForAllLoop(f, inds, Get(asg, f.symbol), 1, asg)

interpret_Exists(f, inds, asg) ==
    ExistsLoop(f, inds, Get(asg, f.symbol), 1, asg)

\* The isinstance chain of interpret_formula; interpreter.py imports no
\* Lambda and no IfAndOnlyIf class, so both fall to the final else.
interpret_formula(f, inds, asg) ==
    CASE f.tag = "Var"    -> interpret_Var(f, inds, asg)
      [] f.tag = "And"    -> interpret_And(f, inds, asg)
      [] f.tag = "Or"     -> interpret_Or(f, inds, asg)
      [] f.tag = "IfThen" -> interpret_IfThen(f, inds, asg)
      [] f.tag = "Call"   -> interpret_Call(f, inds, asg)
      [] f.tag = "ForAll" -> interpret_ForAll(f, inds, asg)
      [] f.tag = "Exists" -> interpret_Exists(f, inds, asg)
      [] f.tag = "Not"    -> interpret_Not(f, inds, asg)
      [] OTHER            -> Raise("Exception", asg)

---------------------------------------------------------------------------
(* The inputs of the interpreter.                                          *)

Ind == {"a", "b"}

\* The domains a model is built with.
Domains == {<< >>, <<"a">>, <<"a", "b">>}

\* The names a quantifier binds.
BinderNames == {"x", "y"}

\* The largest number of connectives and quantifiers put on top of the
\* atoms of an input formula.
MaxOps == 1

Atoms ==
    { Var("x"), Var("y"), Var("q"),
      Call(Var("P"), Var("x")), Call(Var("P"), Var("y")),
      Call(Var("q"), Var("x")),
      Lambda("x", Var("x")) }

RECURSIVE FormulasWithOps(_)
FormulasWithOps(n) ==
    IF n = 0 THEN Atoms
    ELSE LET sub == FormulasWithOps(n - 1)
         IN  {Not(p) : p \in sub}
             \cup {ForAll(s, p) : s \in BinderNames, p \in sub}
             \cup {Exists(s, p) : s \in BinderNames, p \in sub}
             \cup UNION { LET ls == FormulasWithOps(i)
                              rs == FormulasWithOps(n - 1 - i)
                          IN  {And(l, r) : l \in ls, r \in rs}
                              \cup {Or(l, r) : l \in ls, r \in rs}
                              \cup {IfThen(l, r) : l \in ls, r \in rs}
                        : i \in 0 .. (n - 1) }

\* Larger formulas: nested and shadowing quantifiers, a failure two
\* binders deep, a connective whose left operand quantifies.
ExtraFormulas ==
    { ForAll("x", Exists("y", And(Call(Var("P"), Var("x")),
                                  Call(Var("P"), Var("y"))))),
      ForAll("x", Exists("x", Call(Var("P"), Var("x")))),
      Exists("x", ForAll("y", Lambda("x", Var("x")))),
      ForAll("x", Or(Call(Var("P"), Var("x")), Not(Var("q")))),
      And(Exists("y", Call(Var("P"), Var("y"))), Not(Var("y"))),
      IfThen(ForAll("y", Var("q")), Exists("x", Call(Var("P"), Var("x")))),
      IfAndOnlyIf(Var("q"), Var("q")) }

InputFormulas ==
    UNION {FormulasWithOps(n) : n \in 0 .. MaxOps} \cup ExtraFormulas

\* The assignments a host builds: P a predicate (a set of individuals),
\* q a proposition, x possibly an individual, y never bound.
InitialAssignments ==
    { [n \in {"P", "q"} \cup xs |->
          CASE n = "P" -> VSet(p)
            [] n = "q" -> VBool(b)
            [] OTHER   -> VInd("b")]
      : p \in SUBSET Ind, b \in BOOLEAN, xs \in {{}, {"x"}} }

NoFormula == [tag |-> "none"]
NoResult  == [st |-> "none", val |-> VNone]
NoCall    == [op |-> "none"]

\* The parser's objects are not in use.
ParseIdle ==
    /\ gen = NoCall
    /\ iter = NoCall
    /\ hist = << >>

\* The translator's functions are not in use.
PureIdle ==
    /\ call = NoCall
    /\ ret = NoFormula
    /\ term = NoFormula
    /\ tick = 0

---------------------------------------------------------------------------
(* The interpreter as a state machine: a host holding one WorldModel calls *)
(* interpret_formula on it, again and again.                               *)

Init ==
    /\ individuals \in Domains
    /\ assignments \in InitialAssignments
    /\ assigned = DOMAIN assignments
    /\ pc = "idle"
    /\ formula = NoFormula
    /\ before = assignments
    /\ result = NoResult
    /\ PureIdle
    /\ ParseIdle

\* One whole call interpret_formula(f, model).
InterpretFormula(f) ==
    /\ pc = "idle"
    /\ LET r == interpret_formula(f, individuals, assignments)
       IN  /\ assignments' = r.asg
           /\ result' = [st |-> r.st, val |-> r.val]
    /\ formula' = f
    /\ before' = assignments
    /\ pc' = "returned"
    /\ UNCHANGED <<individuals, assigned, pure_vars, parse_vars>>

\* The host takes the result (or catches the exception) and goes on with
\* the same model.
Resume ==
    /\ pc = "returned"
    /\ pc' = "idle"
    /\ formula' = NoFormula
    /\ result' = NoResult
    /\ before' = assignments
    /\ UNCHANGED <<individuals, assignments, assigned, pure_vars, parse_vars>>

\* The host calls the interpreter on some formula.
Interpret == pc = "idle" /\ \E f \in InputFormulas : InterpretFormula(f)

Next ==
    \/ Interpret
    \/ Resume

Spec == Init /\ [][Next]_vars

---------------------------------------------------------------------------
(* Properties of the interpreter, checked under Spec.                      *)

Returned == pc = "returned"

\* The binding of name is the same before and after the last call, absence
\* included.
SameBinding(name) ==
    /\ (name \in DOMAIN assignments) <=> (name \in DOMAIN before)
    /\ name \in DOMAIN before => assignments[name] = before[name]

\* C1: after interpret_formula returns a boolean for ForAll(x, body) or
\* Exists(x, body), the assignment of x is what it was before the call; an
\* x that had no assignment has none afterwards.
QuantifierRestoresBinding ==
    (Returned /\ formula.tag \in {"ForAll", "Exists"} /\ result.st = "ok")
        => SameBinding(formula.symbol)

\* C2: on every exit of interpret_formula, by return or by failure, the
\* assignments equal what they were before the call.
InterpretLeavesModelUnchanged ==
    Returned => assignments = before

\* The body of the quantifier g, interpreted on the model as it was before
\* the call with g.symbol bound to the i-th individual.
BodyAt(g, i) ==
    interpret_formula(g.body, individuals,
                      Put(before, g.symbol, VInd(individuals[i])))

BodyIsBoolean(g) ==
    \A i \in 1 .. Len(individuals) :
        BodyAt(g, i).st = "ok" /\ BodyAt(g, i).val.k = "bool"

BodyTrueAt(g, i) == BodyAt(g, i).val = VBool(TRUE)

\* C6: when the body evaluates to a boolean under each binding, ForAll
\* returns true exactly when the body is true for every individual and
\* Exists exactly when it is true for some individual; on the empty domain
\* ForAll is true and Exists false.
QuantifierTruth ==
    (Returned /\ formula.tag \in {"ForAll", "Exists"}
              /\ BodyIsBoolean(formula))
        => /\ result.st = "ok"
           /\ formula.tag = "ForAll" =>
                result.val = VBool(\A i \in 1 .. Len(individuals) :
                                        BodyTrueAt(formula, i))
           /\ formula.tag = "Exists" =>
                result.val = VBool(\E i \in 1 .. Len(individuals) :
                                        BodyTrueAt(formula, i))

\* An Exists over two individuals whose body fails for the first and holds
\* for the second.
QuantifierTruthWitness ==
    /\ Returned
    /\ formula.tag = "Exists"
    /\ Len(individuals) = 2
    /\ BodyIsBoolean(formula)
    /\ ~BodyTrueAt(formula, 1)
    /\ BodyTrueAt(formula, 2)
    /\ result.val = VBool(TRUE)

\* C7: interpreting Var(name) returns the value assigned to name, and fails
\* for a name the model was given no assignment for; it never yields a
\* placeholder for such a name.
VarLookup ==
    (Returned /\ formula.tag = "Var")
        => IF formula.value \in assigned
           THEN result = [st |-> "ok", val |-> before[formula.value]]
           ELSE result.st = "KeyError"

\* The operand g, interpreted on the model as it was before the call.
Operand(g) == interpret_formula(g, individuals, before)

OperandIsBoolean(g) == Operand(g).st = "ok" /\ Operand(g).val.k = "bool"

Returns(b) == result = [st |-> "ok", val |-> VBool(b)]

\* C8: for operands that interpret to booleans, And is their conjunction,
\* Or their disjunction, IfThen is (not left) or right, Not the negation.
ConnectiveTruth ==
    Returned =>
      /\ ( /\ formula.tag \in {"And", "Or", "IfThen"}
           /\ OperandIsBoolean(formula.left)
           /\ OperandIsBoolean(formula.right) )
         => LET l == Operand(formula.left).val.b
                r == Operand(formula.right).val.b
            IN  CASE formula.tag = "And"    -> Returns(l /\ r)
                  [] formula.tag = "Or"     -> Returns(l \/ r)
                  [] formula.tag = "IfThen" -> Returns(~l \/ r)
      /\ (formula.tag = "Not" /\ OperandIsBoolean(formula.operand))
         => Returns(~Operand(formula.operand).val.b)

\* An implication with a true antecedent that quantifies (and so writes
\* the assignments) and a false consequent.
ConnectiveTruthWitness ==
    /\ Returned
    /\ formula.tag = "IfThen"
    /\ OperandIsBoolean(formula.left)
    /\ OperandIsBoolean(formula.right)
    /\ formula.left.tag = "ForAll"
    /\ assignments # before
    /\ Returns(FALSE)

---------------------------------------------------------------------------
(* The substitution engine: replace_variable(tree, name, replacement) of   *)
(* montague/translator.py, the method replace_variable of each node class  *)
(* of montague/formula.py.  Modelled from spec.md section 4.3 and the two  *)
(* ReplacerTest classes.                                                   *)

Binary  == {"And", "Or", "IfThen", "IfAndOnlyIf"}
Binders == {"Lambda", "ForAll", "Exists"}

\* The name a node binds; the empty string when it binds none.
BinderName(t) ==
    CASE t.tag = "Lambda"              -> t.parameter
      [] t.tag \in {"ForAll", "Exists"} -> t.symbol
      [] OTHER                         -> ""

\* A binder node with another body.
WithBody(t, b) == [t EXCEPT !.body = b]

RECURSIVE replace_variable_IntoEveryBinder(_, _, _)
\* The slip section 9 of spec.md warns of: unconditional recursion, with no
\* check for a binder that shadows the name.
replace_variable_IntoEveryBinder(tree, name, replacement) ==
    CASE tree.tag = "Var" ->
            IF tree.value = name THEN replacement ELSE tree
      [] tree.tag \in Binary ->
            [tree EXCEPT
               !.left  = replace_variable_IntoEveryBinder(@, name, replacement),
               !.right = replace_variable_IntoEveryBinder(@, name, replacement)]
      [] tree.tag = "Not" ->
            [tree EXCEPT
               !.operand = replace_variable_IntoEveryBinder(@, name, replacement)]
      [] tree.tag = "Call" ->
            [tree EXCEPT
               !.caller = replace_variable_IntoEveryBinder(@, name, replacement),
               !.arg    = replace_variable_IntoEveryBinder(@, name, replacement)]
      [] tree.tag \in Binders ->
            WithBody(tree,
                replace_variable_IntoEveryBinder(tree.body, name, replacement))

RECURSIVE replace_variable(_, _, _)
replace_variable(tree, name, replacement) ==
    CASE tree.tag = "Var" ->
            IF tree.value = name THEN replacement ELSE tree
      [] tree.tag \in Binary ->
            [tree EXCEPT !.left  = replace_variable(@, name, replacement),
                         !.right = replace_variable(@, name, replacement)]
      [] tree.tag = "Not" ->
            [tree EXCEPT !.operand = replace_variable(@, name, replacement)]
      [] tree.tag = "Call" ->
            [tree EXCEPT !.caller = replace_variable(@, name, replacement),
                         !.arg    = replace_variable(@, name, replacement)]
      [] tree.tag \in Binders ->
            IF BinderName(tree) = name
            THEN tree
            ELSE WithBody(tree,
                          replace_variable(tree.body, name, replacement))

\* The interpreter is not in use.
InterpIdle ==
    /\ individuals = << >>
    /\ assignments = << >>
    /\ assigned = {}
    /\ pc = "idle"
    /\ formula = NoFormula
    /\ before = << >>
    /\ result = NoResult

\* The largest number of nodes of a generated formula tree.
MaxNodes == 4

TreeNames == {"x", "y"}

RECURSIVE TreesOfSize(_)
TreesOfSize(n) ==
    IF n = 1 THEN {Var(v) : v \in TreeNames}
    ELSE LET sub == TreesOfSize(n - 1)
         IN  {Not(p) : p \in sub}
             \cup {Lambda(v, p) : v \in TreeNames, p \in sub}
             \cup {ForAll(v, p) : v \in TreeNames, p \in sub}
             \cup {Exists(v, p) : v \in TreeNames, p \in sub}
             \cup UNION { LET ls == TreesOfSize(i)
                              rs == TreesOfSize(n - 1 - i)
                          IN  {And(l, r) : l \in ls, r \in rs}
                              \cup {Or(l, r) : l \in ls, r \in rs}
                              \cup {IfThen(l, r) : l \in ls, r \in rs}
                              \cup {IfAndOnlyIf(l, r) : l \in ls, r \in rs}
                              \cup {Call(l, r) : l \in ls, r \in rs}
                        : i \in 1 .. (n - 2) }

\* The trees of ReplacerTest.test_replace_variable_in_quantifiers (over x
\* and y) and ReplacerTest.test_recursive_replace_variable.
QuantifiersTestTree ==
    ForAll("y", Or(And(ForAll("x", Var("x")), Exists("x", Var("x"))),
                   Exists("z", Var("x"))))

RecursiveTestTree ==
    Call(Call(Call(Var("BFP"), Var("x")), Lambda("x", Var("x"))),
         And(Var("x"), Var("y")))

ReplaceTrees ==
    UNION {TreesOfSize(n) : n \in 1 .. MaxNodes}
        \cup {QuantifiersTestTree, RecursiveTestTree}

\* A constant, a formula that mentions the replaced name again, and one
\* that binds.
Replacements ==
    {Var("j"), And(Var("x"), Var("j")), Lambda("y", Var("x"))}

InitReplace ==
    /\ InterpIdle
    /\ ParseIdle
    /\ call \in { [op |-> "replace_variable", tree |-> t, name |-> v,
                   replacement |-> r]
                  : t \in ReplaceTrees, v \in TreeNames, r \in Replacements }
    /\ ret = NoFormula
    /\ term = NoFormula
    /\ tick = 0

ReplaceVariable ==
    /\ call.op = "replace_variable"
    /\ ret = NoFormula
    /\ ret' = replace_variable(call.tree, call.name, call.replacement)
    /\ UNCHANGED <<interp_vars, parse_vars, call, term, tick>>

NextReplace == ReplaceVariable

SpecReplace == InitReplace /\ [][NextReplace]_vars

(* Free occurrences, stated on positions rather than by recursion on the   *)
(* tree: a position is the sequence of child indices leading to a node.    *)

Children(t) ==
    CASE t.tag = "Var"      -> << >>
      [] t.tag \in Binary   -> <<t.left, t.right>>
      [] t.tag = "Not"      -> <<t.operand>>
      [] t.tag = "Call"     -> <<t.caller, t.arg>>
      [] t.tag \in Binders  -> <<t.body>>

\* What a node is, its children left aside.
Label(t) ==
    CASE t.tag = "Var" -> <<"Var", t.value>>
      [] OTHER         -> <<t.tag, BinderName(t)>>

RECURSIVE Positions(_)
Positions(t) ==
    {<< >>} \cup UNION { {<<i>> \o q : q \in Positions(Children(t)[i])}
                         : i \in 1 .. Len(Children(t)) }

RECURSIVE At(_, _)
At(t, p) == IF p = << >> THEN t ELSE At(Children(t)[Head(p)], Tail(p))

\* Some node strictly above position p binds name.
Shadowed(t, p, name) ==
    \E k \in 0 .. (Len(p) - 1) : BinderName(At(t, SubSeq(p, 1, k))) = name

Occurrences(t, name) == {p \in Positions(t) : At(t, p) = Var(name)}

FreeOccurrences(t, name) ==
    {p \in Occurrences(t, name) : ~Shadowed(t, p, name)}

Replaced == call.op = "replace_variable" /\ ret # NoFormula

\* C3: replace_variable(tree, name, replacement) is the tree with the
\* replacement at every free occurrence of Var(name) and every other node
\* as it was; a Lambda/ForAll/Exists node that binds name is returned
\* unchanged, occurrences under it included.
ReplacesExactlyFreeOccurrences ==
    Replaced =>
      LET t   == call.tree
          occ == FreeOccurrences(t, call.name)
      IN  /\ Positions(ret) =
                (Positions(t) \ occ)
                \cup {p \o q : p \in occ, q \in Positions(call.replacement)}
          /\ \A p \in occ : At(ret, p) = call.replacement
          /\ \A p \in Positions(t) \ occ : Label(At(ret, p)) = Label(At(t, p))
          /\ BinderName(t) = call.name => ret = t

\* A tree holding both a free occurrence of the name, which is replaced,
\* and an occurrence under a binder of that name, which is not.
ReplaceWitness ==
    /\ Replaced
    /\ FreeOccurrences(call.tree, call.name) # {}
    /\ FreeOccurrences(call.tree, call.name)
           # Occurrences(call.tree, call.name)
    /\ ret # call.tree

---------------------------------------------------------------------------
(* The beta-reducer: simplify_formula(tree) of montague/translator.py.     *)
(* Modelled from spec.md section 4.4 and SimplifierTest: the children are  *)
(* simplified first, then a Call whose caller has become a Lambda is       *)
(* rewritten by substitution, and the outcome is simplified again, until   *)
(* no Call(Lambda(...), ...) is left.                                       *)

RECURSIVE HasRedex(_)
\* Some node of t is a Call whose caller is a Lambda.
HasRedex(t) ==
    \/ t.tag = "Call" /\ t.caller.tag = "Lambda"
    \/ \E i \in 1 .. Len(Children(t)) : HasRedex(Children(t)[i])

RECURSIVE simplify_formula_OnePass(_)
\* A slip in the reducer: the outcome of a substitution is not simplified
\* again.
simplify_formula_OnePass(tree) ==
    CASE tree.tag = "Var" -> tree
      [] tree.tag \in Binary ->
            [tree EXCEPT !.left  = simplify_formula_OnePass(@),
                         !.right = simplify_formula_OnePass(@)]
      [] tree.tag = "Not" ->
            [tree EXCEPT !.operand = simplify_formula_OnePass(@)]
      [] tree.tag \in Binders ->
            WithBody(tree, simplify_formula_OnePass(tree.body))
      [] tree.tag = "Call" ->
            LET c == simplify_formula_OnePass(tree.caller)
                a == simplify_formula_OnePass(tree.arg)
            IN  IF c.tag = "Lambda"
                THEN replace_variable(c.body, c.parameter, a)
                ELSE Call(c, a)

RECURSIVE simplify_formula(_)
simplify_formula(tree) ==
    CASE tree.tag = "Var" -> tree
      [] tree.tag \in Binary ->
            [tree EXCEPT !.left  = simplify_formula(@),
                         !.right = simplify_formula(@)]
      [] tree.tag = "Not" ->
            [tree EXCEPT !.operand = simplify_formula(@)]
      [] tree.tag \in Binders ->
            WithBody(tree, simplify_formula(tree.body))
      [] tree.tag = "Call" ->
            LET c == simplify_formula(tree.caller)
                a == simplify_formula(tree.arg)
            IN  IF c.tag = "Lambda"
                THEN simplify_formula(
                         replace_variable(c.body, c.parameter, a))
                ELSE Call(c, a)

\* The largest number of nodes of a generated lambda term.
MaxTermNodes == 6

RECURSIVE TermsOfSize(_)
\* The terms of n nodes built from variables, abstraction, application and
\* conjunction.
TermsOfSize(n) ==
    IF n = 1 THEN {Var(v) : v \in TreeNames}
    ELSE {Lambda(v, p) : v \in TreeNames, p \in TermsOfSize(n - 1)}
         \cup UNION { LET ls == TermsOfSize(i)
                          rs == TermsOfSize(n - 1 - i)
                      IN  {Call(l, r) : l \in ls, r \in rs}
                          \cup {And(l, r) : l \in ls, r \in rs}
                    : i \in 1 .. (n - 2) }

\* The inputs of SimplifierTest.
SimpleCall == Call(Lambda("x", Var("x")), Var("j"))

\* (Lx.Ly.x & y)(a)(b)
NestedCall ==
    Call(Call(Lambda("x", Lambda("y", And(Var("x"), Var("y")))), Var("a")),
         Var("b"))

\* (LP.P(x))(Lx.x | a)
CallWithLambdaArg ==
    Call(Lambda("P", Call(Var("P"), Var("x"))),
         Lambda("x", Or(Var("x"), Var("a"))))

\* (LP.P(a, b))(Lx.Ly.x & y)
SuperNestedCall ==
    Call(Lambda("P", Call(Call(Var("P"), Var("a")), Var("b"))),
         Lambda("x", Lambda("y", And(Var("x"), Var("y")))))

\* (LP.LQ.Ax.P(x) -> Q(x))(Lx.Child(x))
EveryChild ==
    Call(Lambda("P", Lambda("Q", ForAll("x",
             IfThen(Call(Var("P"), Var("x")), Call(Var("Q"), Var("x")))))),
         Lambda("x", Call(Var("Child"), Var("x"))))

TestTerms ==
    {SimpleCall, NestedCall, CallWithLambdaArg, SuperNestedCall, EveryChild}

SimplifyInputs ==
    UNION {TermsOfSize(n) : n \in 1 .. MaxTermNodes} \cup TestTerms

InitSimplify ==
    /\ InterpIdle
    /\ ParseIdle
    /\ call \in {[op |-> "simplify_formula", tree |-> t] : t \in SimplifyInputs}
    /\ ret = NoFormula
    /\ term = NoFormula
    /\ tick = 0

SimplifyFormula ==
    /\ call.op = "simplify_formula"
    /\ ret = NoFormula
    /\ ret' = simplify_formula(call.tree)
    /\ UNCHANGED <<interp_vars, parse_vars, call, term, tick>>

NextSimplify == SimplifyFormula

SpecSimplify == InitSimplify /\ [][NextSimplify]_vars

Simplified == call.op = "simplify_formula" /\ ret # NoFormula

\* C4: simplify(simplify(f)) = simplify(f) for every f on which simplify
\* returns, and simplify(f) = f when f holds no Call(Lambda(...), ...);
\* (LP.P(a, b))(Lx.Ly.x & y), where the substitution makes a new redex,
\* gives a & b.
SimplifyIdempotent ==
    Simplified =>
      /\ simplify_formula(ret) = ret
      /\ ~HasRedex(call.tree) => ret = call.tree
      /\ call.tree = SuperNestedCall => ret = And(Var("a"), Var("b"))

\* The lambda passed as argument has been applied inside the body.
SimplifyWitness ==
    /\ Simplified
    /\ call.tree = SuperNestedCall
    /\ ret = And(Var("a"), Var("b"))

---------------------------------------------------------------------------
(* The reducer step by step: each step is one substitution, made at the    *)
(* redex simplify_formula rewrites next (caller before argument, children  *)
(* before the node itself).                                                *)

RECURSIVE BetaStep(_)

\* A slip in the rewrite: the substituted body is computed and dropped, the
\* application is returned as it was.
BetaStep_ReturnsApplication(t) ==
    CASE t.tag = "Var" -> t
      [] t.tag \in Binary ->
            IF HasRedex(t.left) THEN [t EXCEPT !.left = BetaStep(@)]
                                ELSE [t EXCEPT !.right = BetaStep(@)]
      [] t.tag = "Not" -> [t EXCEPT !.operand = BetaStep(@)]
      [] t.tag \in Binders -> WithBody(t, BetaStep(t.body))
      [] t.tag = "Call" ->
            IF HasRedex(t.caller) THEN [t EXCEPT !.caller = BetaStep(@)]
            ELSE IF HasRedex(t.arg) THEN [t EXCEPT !.arg = BetaStep(@)]
            ELSE t

BetaStep(t) ==
    CASE t.tag = "Var" -> t
      [] t.tag \in Binary ->
            IF HasRedex(t.left) THEN [t EXCEPT !.left = BetaStep(@)]
                                ELSE [t EXCEPT !.right = BetaStep(@)]
      [] t.tag = "Not" -> [t EXCEPT !.operand = BetaStep(@)]
      [] t.tag \in Binders -> WithBody(t, BetaStep(t.body))
      [] t.tag = "Call" ->
            IF HasRedex(t.caller) THEN [t EXCEPT !.caller = BetaStep(@)]
            ELSE IF HasRedex(t.arg) THEN [t EXCEPT !.arg = BetaStep(@)]
            ELSE IF t.caller.tag = "Lambda"
                 THEN replace_variable(t.caller.body, t.caller.parameter,
                                       t.arg)
                 ELSE t

\* (Lx.x(x))(Lx.x(x))
SelfApplication == Lambda("x", Call(Var("x"), Var("x")))
Omega == Call(SelfApplication, SelfApplication)

ReduceInputs == SimplifyInputs \cup {Omega}

InitReduce ==
    /\ InterpIdle
    /\ ParseIdle
    /\ call \in {[op |-> "simplify_formula", tree |-> t] : t \in ReduceInputs}
    /\ ret = NoFormula
    /\ term = call.tree
    /\ tick = 0

\* One substitution step.
Reduce ==
    /\ ret = NoFormula
    /\ HasRedex(term)
    /\ term' = BetaStep(term)
    /\ tick' = 1 - tick
    /\ UNCHANGED <<interp_vars, parse_vars, call, ret>>

\* No redex is left: the term is returned.
Finish ==
    /\ ret = NoFormula
    /\ ~HasRedex(term)
    /\ ret' = term
    /\ UNCHANGED <<interp_vars, parse_vars, call, term, tick>>

NextReduce == Reduce \/ Finish

SpecReduce == InitReduce /\ [][NextReduce]_vars

\* The reducer is a sequential loop: while it can take its next step, it
\* takes it.
FairSpecReduce == SpecReduce /\ WF_vars(NextReduce)

Reduced == ret # NoFormula

\* C5 as stated: simplify terminates on every finite formula of the
\* language, with a redex-free formula.
ReductionTerminates == <>(Reduced /\ ~HasRedex(ret))

RECURSIVE HasLambda(_)
HasLambda(t) ==
    \/ t.tag = "Lambda"
    \/ \E i \in 1 .. Len(Children(t)) : HasLambda(Children(t)[i])

\* No argument of a Call holds a Lambda.
ArgsLambdaFree(t) ==
    \A p \in Positions(t) :
        At(t, p).tag = "Call" => ~HasLambda(At(t, p).arg)

\* C5, amended: simplify terminates, with a redex-free formula, on every
\* formula in which no argument of a Call contains a Lambda.
FirstOrderReductionTerminates ==
    ArgsLambdaFree(call.tree) ~> (Reduced /\ ~HasRedex(ret))

\* The two substitutions of (Lx.Ly.x & y)(a)(b) have been made.
ReductionWitness ==
    /\ Reduced
    /\ call.tree = NestedCall
    /\ ArgsLambdaFree(call.tree)
    /\ ret = And(Var("a"), Var("b"))

\* The steps reach what simplify_formula returns.
ReduceAgreesWithSimplify ==
    (Reduced /\ call.tree # Omega) => ret = simplify_formula(call.tree)

---------------------------------------------------------------------------
(* The combinator: can_combine(a, b) and combine(a, b) of                  *)
(* montague/translator.py.  Modelled from spec.md section 4.5 as far as    *)
(* CombinerTest allows: test_mismatched_types asserts that an entity       *)
(* followed by an <e, t> predicate does not combine, so the functor is     *)
(* the first entry only.                                                   *)

AtomicType(a)    == [atom |-> a]
TypeNode(d, r)   == [domain |-> d, range |-> r]
IsCompound(ty)   == "domain" \in DOMAIN ty

TYPE_ENTITY      == AtomicType("e")
TYPE_EVENT       == AtomicType("v")
TYPE_TRUTH_VALUE == AtomicType("t")
TYPE_ET          == TypeNode(TYPE_ENTITY, TYPE_TRUTH_VALUE)

LexiconEntry(d, ty) == [denotation |-> d, type |-> ty]

\* The first entry is a functor over the second.
Applies(a, b) == IsCompound(a.type) /\ a.type.domain = b.type

\* A slip in the test: any functor is taken to apply, whatever its domain.
can_combine_AnyFunctor(a, b) == IsCompound(a.type)

can_combine(a, b) == Applies(a, b)

CombinationError == [error |-> "CombinationError"]

\* A slip in the application: the argument is put in caller position.
combine_ArgumentFirst(a, b) ==
    IF can_combine(a, b)
    THEN LexiconEntry(Call(b.denotation, a.denotation), a.type.range)
    ELSE CombinationError

combine(a, b) ==
    IF can_combine(a, b)
    THEN LexiconEntry(Call(a.denotation, b.denotation), a.type.range)
    ELSE CombinationError

\* The largest number of atomic types in a generated type.
MaxTypeLeaves == 3

RECURSIVE TypesWithLeaves(_)
TypesWithLeaves(n) ==
    IF n = 1 THEN {TYPE_ENTITY, TYPE_TRUTH_VALUE}
    ELSE UNION { {TypeNode(d, r) : d \in TypesWithLeaves(i),
                                   r \in TypesWithLeaves(n - i)}
                 : i \in 1 .. (n - 1) }

\* test_lexicon and the two entries of CombinerTest.
test_lexicon ==
    [ bad   |-> LexiconEntry(Lambda("x", Call(Var("Bad"), Var("x"))), TYPE_ET),
      is    |-> LexiconEntry(Lambda("P", Var("P")), TypeNode(TYPE_ET, TYPE_ET)),
      good  |-> LexiconEntry(Lambda("x", Call(Var("Good"), Var("x"))), TYPE_ET),
      every |-> LexiconEntry(
                    Lambda("P", Lambda("Q", ForAll("x",
                        IfThen(Call(Var("P"), Var("x")),
                               Call(Var("Q"), Var("x")))))),
                    TypeNode(TYPE_ET, TypeNode(TYPE_ET, TYPE_TRUTH_VALUE))),
      child |-> LexiconEntry(Lambda("x", Call(Var("Child"), Var("x"))),
                             TYPE_ET),
      John  |-> LexiconEntry(Var("j"), TYPE_ENTITY) ]

pred   == LexiconEntry(Lambda("x", Call(Var("P"), Var("x"))), TYPE_ET)
entity == LexiconEntry(Var("me"), TYPE_ENTITY)

Entries ==
    { LexiconEntry(d, ty) :
          d \in {Var("f"), Var("g")},
          ty \in UNION {TypesWithLeaves(n) : n \in 1 .. MaxTypeLeaves} }
    \cup {test_lexicon[w] : w \in DOMAIN test_lexicon}
    \cup {pred, entity}

InitCombine ==
    /\ InterpIdle
    /\ ParseIdle
    /\ call \in {[op |-> "combine", a |-> a, b |-> b] :
                     a \in Entries, b \in Entries}
    /\ ret = NoFormula
    /\ term = NoFormula
    /\ tick = 0

\* can_combine(a, b), then combine(a, b).
Combine ==
    /\ call.op = "combine"
    /\ ret = NoFormula
    /\ ret' = [can |-> can_combine(call.a, call.b),
               out |-> combine(call.a, call.b)]
    /\ UNCHANGED <<interp_vars, parse_vars, call, term, tick>>

NextCombine == Combine

SpecCombine == InitCombine /\ [][NextCombine]_vars

Combined == call.op = "combine" /\ ret # NoFormula

\* The type ty is compound with the type of entry e as its domain.
TakesArgument(ty, e) == IsCompound(ty) /\ ty.domain = e.type

---------------------------------------------------------------------------
(* The sentence translator, translate_sentence(sentence, lexicon): the     *)
(* words are looked up and their entries folded pairwise from the left     *)
(* (spec.md 4.5).  The denotation of every combination is beta-reduced:    *)
(* TranslatorTest.test_is_good expects `is good` to denote Lx.Good(x).     *)

\* A bound on the number of words of a sentence.
MaxWords == 4

TranslationError(what) == [tag |-> "TranslationError", what |-> what]

IsEntry(e) == "denotation" \in DOMAIN e

\* The words not in the lexicon, in sentence order.
UnknownWords(words, lexicon) ==
    SelectSeq(words, LAMBDA w : w \notin DOMAIN lexicon)

\* One step of the fold: the accumulated entry applied to the next one.
RECURSIVE FoldEntries(_, _)
FoldEntries(acc, rest) ==
    IF rest = << >>
    THEN acc
    ELSE IF can_combine(acc, Head(rest))
         THEN LET e == combine(acc, Head(rest))
              IN  FoldEntries(LexiconEntry(simplify_formula(e.denotation),
                                           e.type),
                              Tail(rest))
         ELSE TranslationError(<<acc, Head(rest)>>)

translate_sentence(words, lexicon) ==
    IF UnknownWords(words, lexicon) # << >>
    THEN TranslationError(Head(UnknownWords(words, lexicon)))
    ELSE LET terms == [i \in 1 .. Len(words) |-> lexicon[words[i]]]
         IN  FoldEntries(Head(terms), Tail(terms))

Words == DOMAIN test_lexicon \cup {"whorlious"}

Sentences ==
    UNION {[1 .. n -> Words] : n \in 1 .. MaxWords}

InitTranslate ==
    /\ InterpIdle
    /\ ParseIdle
    /\ call \in {[op |-> "translate_sentence", sentence |-> s] :
                     s \in Sentences}
    /\ ret = NoFormula
    /\ term = NoFormula
    /\ tick = 0

\* translate_sentence(sentence, test_lexicon).
TranslateSentence ==
    /\ call.op = "translate_sentence"
    /\ ret = NoFormula
    /\ ret' = translate_sentence(call.sentence, test_lexicon)
    /\ UNCHANGED <<interp_vars, parse_vars, call, term, tick>>

NextTranslate == TranslateSentence

SpecTranslate == InitTranslate /\ [][NextTranslate]_vars

Translated == call.op = "translate_sentence" /\ ret # NoFormula

\* Every step of the left-to-right fold over the entries can combine: the
\* entry accumulated so far takes the next entry as its argument.
RECURSIVE EveryStepCombines(_, _)
EveryStepCombines(acc, rest) ==
    \/ rest = << >>
    \/ /\ TakesArgument(acc.type, Head(rest))
       /\ EveryStepCombines(
              LexiconEntry(Call(acc.denotation, Head(rest).denotation),
                           acc.type.range),
              Tail(rest))

\* C11: translate_sentence folds the entries of the words pairwise from
\* the left, starting from the first word's entry, and fails with a
\* TranslationError as soon as the accumulated entry and the next entry
\* cannot combine; a sentence of known words succeeds exactly when every
\* step of that fold can combine, so that `every child is good` succeeds
\* with type truth-value and `every John is good` fails.
TranslatesByLeftFold ==
    Translated =>
      LET words == call.sentence
          terms == [i \in 1 .. Len(words) |-> test_lexicon[words[i]]]
      IN  /\ UnknownWords(words, test_lexicon) = << >> =>
                (IsEntry(ret) <=>
                     EveryStepCombines(Head(terms), Tail(terms)))
          /\ ~IsEntry(ret) => ret.tag = "TranslationError"
          /\ words = <<"every", "child", "is", "good">> =>
                IsEntry(ret) /\ ret.type = TYPE_TRUTH_VALUE
          /\ words = <<"every", "John", "is", "good">> => ~IsEntry(ret)

\* C12: the denotation of the entry translate_sentence returns is already
\* beta-reduced, with no Call(Lambda(...), ...) left in it: `John is good`
\* yields Call(Var('Good'), Var('j')) with type truth-value and `is good`
\* yields Lambda('x', Call(Var('Good'), Var('x'))) with type <e, t>.
TranslationIsReduced ==
    Translated =>
      /\ IsEntry(ret) => ~HasRedex(ret.denotation)
      /\ call.sentence = <<"John", "is", "good">> =>
            ret = LexiconEntry(Call(Var("Good"), Var("j")), TYPE_TRUTH_VALUE)
      /\ call.sentence = <<"is", "good">> =>
            ret = LexiconEntry(Lambda("x", Call(Var("Good"), Var("x"))),
                               TYPE_ET)

---------------------------------------------------------------------------
(* The tokenizer of montague/parsing.py.  A text is a sequence of          *)
(* characters, each a one-character string; offsets count from 0 as in     *)
(* Python, so the character at offset i is text[i + 1].                    *)

Lower  == {"a", "b", "c", "d", "e", "f", "g", "h", "i", "j", "k", "l", "m",
           "n", "o", "p", "q", "r", "s", "t", "u", "v", "w", "x", "y", "z"}
Upper  == {"A", "B", "C", "D", "E", "F", "G", "H", "I", "J", "K", "L", "M",
           "N", "O", "P", "Q", "R", "S", "T", "U", "V", "W", "X", "Y", "Z"}
Letter == Lower \cup Upper
Digit  == {"0", "1", "2", "3", "4", "5", "6", "7", "8", "9"}

\* [A-Za-z0-9_'-], the characters that continue a SYMBOL.
SymbolChar == Letter \cup Digit \cup {"_", "'", "-"}

\* \s, the characters SKIP matches.
Whitespace == {" ", "\t", "\n", "\r"}

\* The one-character tokens of _TOKENS other than LAMBDA.
Punctuation ==
    [c \in {"&", "|", "[", "]", "(", ")", ",", "."} |->
        CASE c = "&" -> "AND"
          [] c = "|" -> "OR"
          [] c = "[" -> "LBRACKET"
          [] c = "]" -> "RBRACKET"
          [] c = "(" -> "LPAREN"
          [] c = ")" -> "RPAREN"
          [] c = "," -> "COMMA"
          [] c = "." -> "DOT"]

\* The offset at which the run of characters of class cs that holds offset
\* i ends: a greedy  [cs]*  from offset i.
RECURSIVE RunEnd(_, _, _)
RunEnd(text, i, cs) ==
    IF i < Len(text) /\ text[i + 1] \in cs
    THEN RunEnd(text, i + 1, cs)
    ELSE i

\* The match _TOKEN_REGEX finds at offset pos: the first alternative of
\* _TOKENS, in their order, that matches there.
Match(text, pos) ==
    LET c == text[pos + 1]
    IN  IF c = "L"
        THEN [kind |-> "LAMBDA", end |-> pos + 1]
        ELSE IF c \in Letter
        THEN [kind |-> "SYMBOL", end |-> RunEnd(text, pos + 1, SymbolChar)]
        ELSE IF c \in DOMAIN Punctuation
        THEN [kind |-> Punctuation[c], end |-> pos + 1]
        ELSE IF c = "\n"
        THEN [kind |-> "NEWLINE", end |-> pos + 1]
        ELSE IF c \in Whitespace
        THEN [kind |-> "SKIP", end |-> RunEnd(text, pos + 1, Whitespace)]
        ELSE [kind |-> "MISMATCH", end |-> pos + 1]

Token(typ, value, line, column) ==
    [typ |-> typ, value |-> value, line |-> line, column |-> column]

\* The generator tokenize(formula) before its first resumption.  pos is
\* the offset finditer has reached; done says the generator has returned
\* or raised.
tokenize(text) ==
    [formula |-> text, pos |-> 0, lineno |-> 1, line_start |-> 0,
     done |-> FALSE]

\* What a call ends with: a value, or the exception it raises.
Outcome(st, val) == [st |-> st, val |-> val]

StopIteration     == Outcome("StopIteration", VNone)
UnboundLocalError == Outcome("UnboundLocalError", VNone)
RuntimeError(msg) == Outcome("RuntimeError", [msg |-> msg])

\* next(gen): the body of tokenize run to its next yield, to its end, or
\* to the exception it raises.  The NEWLINE branch assigns line_start and
\* then evaluates  line_num += 1 , whose left-hand side is a local name
\* that was never bound.
RECURSIVE next_token(_)
next_token(g) ==
    IF g.done \/ g.pos >= Len(g.formula)
    THEN [out |-> StopIteration, at |-> g.pos,
          gen |-> [g EXCEPT !.done = TRUE]]
    ELSE
      LET mo == Match(g.formula, g.pos)
      IN  CASE mo.kind = "NEWLINE" ->
                 [out |-> UnboundLocalError, at |-> g.pos,
                  gen |-> [g EXCEPT !.line_start = mo.end, !.pos = mo.end,
                                    !.done = TRUE]]
            [] mo.kind = "SKIP" ->
                 next_token([g EXCEPT !.pos = mo.end])
            [] mo.kind = "MISMATCH" ->
                 [out |-> RuntimeError("not expected"), at |-> g.pos,
                  gen |-> [g EXCEPT !.pos = mo.end, !.done = TRUE]]
            [] OTHER ->
                 [out |-> Outcome("ok",
                              Token(mo.kind,
                                    SubSeq(g.formula, g.pos + 1, mo.end),
                                    g.lineno, g.pos - g.line_start)),
                  at |-> g.pos,
                  gen |-> [g EXCEPT !.pos = mo.end]]

---------------------------------------------------------------------------
(* IteratorWithMemory, over a generator of tokens or over the iterator of  *)
(* a list.                                                                 *)

\* iter(items), and next() on it.
list_iterator(items) == [items |-> items, i |-> 0]

list_next(it) ==
    IF it.i < Len(it.items)
    THEN [out |-> Outcome("ok", it.items[it.i + 1]),
          it |-> [it EXCEPT !.i = @ + 1]]
    ELSE [out |-> StopIteration, it |-> it]

\* next(self.iterator)
iterator_next(it) ==
    IF "formula" \in DOMAIN it
    THEN LET r == next_token(it) IN [out |-> r.out, it |-> r.gen]
    ELSE list_next(it)

IteratorWithMemory(it) == [iterator |-> it, memory |-> VNone]

\* IteratorWithMemory.__next__
IteratorWithMemory_next(self) ==
    IF self.memory # VNone
    THEN [out |-> Outcome("ok", self.memory),
          tz |-> [self EXCEPT !.memory = VNone]]
    ELSE LET r == iterator_next(self.iterator)
         IN  [out |-> r.out, tz |-> [self EXCEPT !.iterator = r.it]]

\* IteratorWithMemory.push
IteratorWithMemory_push(self, val) == [self EXCEPT !.memory = val]

---------------------------------------------------------------------------
(* The recursive descent of parse_formula.  Each function takes the        *)
(* IteratorWithMemory and returns what it returned or raised together      *)
(* with the iterator as it left it.                                        *)

VarNode(value)              == [tag |-> "VarNode", value |-> value]
AndNode(left, right)        == [tag |-> "AndNode", left |-> left,
                                right |-> right]
OrNode(left, right)         == [tag |-> "OrNode", left |-> left,
                                right |-> right]
LambdaNode(parameter, body) == [tag |-> "LambdaNode",
                                parameter |-> parameter, body |-> body]
CallNode(symbol, args)      == [tag |-> "CallNode", symbol |-> symbol,
                                args |-> args]

\* A Python list.
PyList(items) == [k |-> "list", items |-> items]

Gives(val, tz)  == [out |-> Outcome("ok", val), tz |-> tz]
Throws(exc, tz) == [out |-> exc, tz |-> tz]
Raised(r)        == r.out.st # "ok"

\* A value bound to a local name of the function being run: Bind(v, F)
\* is F with its parameter standing for v.
Bind(val, F(_)) == F(val)

RECURSIVE match_e(_), match_lambda(_), match_symbol_postfix(_)
RECURSIVE match_arglist(_, _), match_term(_), match_factor(_)

match_e(tz) ==
    Bind(IteratorWithMemory_next(tz), LAMBDA n1 :
    IF Raised(n1) THEN n1 ELSE
    Bind(IteratorWithMemory_push(n1.tz, n1.out.val), LAMBDA tz1 :
    IF n1.out.val.typ = "LAMBDA" THEN match_lambda(tz1) ELSE
    Bind(match_term(tz1), LAMBDA left_term :
    IF Raised(left_term) THEN left_term ELSE
    Bind(IteratorWithMemory_next(left_term.tz), LAMBDA n2 :
    IF n2.out = StopIteration THEN Gives(left_term.out.val, n2.tz) ELSE
    IF Raised(n2) THEN n2 ELSE
    IF n2.out.val.typ = "OR"
    THEN Bind(match_term(n2.tz), LAMBDA right_term :
         IF Raised(right_term) THEN right_term
         ELSE Gives(OrNode(left_term.out.val, right_term.out.val),
                    right_term.tz))
    ELSE Gives(left_term.out.val,
               IteratorWithMemory_push(n2.tz, n2.out.val))))))

match_lambda(tz) ==
    Bind(IteratorWithMemory_next(tz), LAMBDA n1 :
    IF Raised(n1) THEN n1 ELSE
    IF n1.out.val.typ # "LAMBDA"
    THEN Throws(RuntimeError("expected L"), n1.tz) ELSE
    Bind(IteratorWithMemory_next(n1.tz), LAMBDA n2 :
    IF Raised(n2) THEN n2 ELSE
    IF n2.out.val.typ # "SYMBOL"
    THEN Throws(RuntimeError("expected symbol"), n2.tz) ELSE
    Bind(VarNode(n2.out.val.value), LAMBDA parameter :
    Bind(IteratorWithMemory_next(n2.tz), LAMBDA n3 :
    IF Raised(n3) THEN n3 ELSE
    IF n3.out.val.typ # "DOT"
    THEN Throws(RuntimeError("expected ."), n3.tz) ELSE
    Bind(match_e(n3.tz), LAMBDA body :
    IF Raised(body) THEN body
    ELSE Gives(LambdaNode(parameter, body.out.val), body.tz))))))

match_symbol_postfix(tz) ==
    Bind(IteratorWithMemory_next(tz), LAMBDA n1 :
    IF n1.out = StopIteration THEN Gives(VNone, n1.tz) ELSE
    IF Raised(n1) THEN n1 ELSE
    IF n1.out.val.typ # "LPAREN"
    THEN Gives(VNone, IteratorWithMemory_push(n1.tz, n1.out.val)) ELSE
    Bind(match_arglist(n1.tz, << >>), LAMBDA args :
    IF Raised(args) THEN args ELSE
    Bind(IteratorWithMemory_next(args.tz), LAMBDA n2 :
    IF Raised(n2) THEN n2 ELSE
    IF n2.out.val.typ # "RPAREN"
    THEN Throws(RuntimeError("expected )"), n2.tz)
    ELSE Gives(args.out.val, n2.tz))))

\* One turn of the `while True` loop of match_arglist, args being the list
\* built so far.
match_arglist(tz, args) ==
    Bind(IteratorWithMemory_next(tz), LAMBDA n1 :
    IF Raised(n1) THEN n1 ELSE
    Bind(IteratorWithMemory_push(n1.tz, n1.out.val), LAMBDA tz1 :
    IF n1.out.val.typ = "RPAREN" THEN Gives(PyList(args), tz1) ELSE
    Bind(match_e(tz1), LAMBDA e :
    IF Raised(e) THEN e ELSE
    Bind(IteratorWithMemory_next(e.tz), LAMBDA n2 :
    Bind(Append(args, e.out.val), LAMBDA appended :
    IF Raised(n2) THEN n2 ELSE
    IF n2.out.val.typ = "RPAREN"
    THEN Gives(PyList(appended),
               IteratorWithMemory_push(n2.tz, n2.out.val)) ELSE
    IF n2.out.val.typ = "COMMA"
    THEN match_arglist(n2.tz, appended)
    ELSE Throws(RuntimeError("expected , or )"), n2.tz))))))

match_term(tz) ==
    Bind(match_factor(tz), LAMBDA left_factor :
    IF Raised(left_factor) THEN left_factor ELSE
    Bind(IteratorWithMemory_next(left_factor.tz), LAMBDA n1 :
    IF n1.out = StopIteration THEN Gives(left_factor.out.val, n1.tz) ELSE
    IF Raised(n1) THEN n1 ELSE
    IF n1.out.val.typ = "AND"
    THEN Bind(match_factor(n1.tz), LAMBDA right_factor :
         IF Raised(right_factor) THEN right_factor
         ELSE Gives(AndNode(left_factor.out.val, right_factor.out.val),
                    right_factor.tz))
    ELSE Gives(left_factor.out.val,
               IteratorWithMemory_push(n1.tz, n1.out.val))))

match_factor(tz) ==
    Bind(IteratorWithMemory_next(tz), LAMBDA n1 :
    IF Raised(n1) THEN n1 ELSE
    IF n1.out.val.typ = "SYMBOL"
    THEN Bind(match_symbol_postfix(n1.tz), LAMBDA postfix :
         IF Raised(postfix) THEN postfix ELSE
         IF postfix.out.val = VNone
         THEN Gives(VarNode(n1.out.val.value), postfix.tz)
         ELSE Gives(CallNode(VarNode(n1.out.val.value), postfix.out.val),
                    postfix.tz))
    ELSE
    IF n1.out.val.typ = "LBRACKET"
    THEN Bind(match_e(n1.tz), LAMBDA e :
         IF Raised(e) THEN e ELSE
         Bind(IteratorWithMemory_next(e.tz), LAMBDA n2 :
         IF Raised(n2) THEN n2 ELSE
         IF n2.out.val.typ = "RBRACKET"
         THEN Gives(e.out.val, n2.tz)
         ELSE Throws(RuntimeError("expected ]"), n2.tz)))
    ELSE Throws(RuntimeError("expected symbol"), n1.tz))

\* parse_formula without the test for trailing tokens: whatever match_e
\* returns is the result.
parse_formula_KeepsTrailingTokens(text) ==
    Bind(match_e(IteratorWithMemory(tokenize(text))), LAMBDA tree :
    IF tree.out = StopIteration
    THEN RuntimeError("premature end of formula")
    ELSE tree.out)

\* parse_formula(formula): the tree, or the exception raised.
parse_formula(text) ==
    Bind(match_e(IteratorWithMemory(tokenize(text))), LAMBDA tree :
    IF tree.out = StopIteration
    THEN RuntimeError("premature end of formula") ELSE
    IF Raised(tree) THEN tree.out ELSE
    Bind(IteratorWithMemory_next(tree.tz), LAMBDA tkn :
    IF tkn.out = StopIteration THEN tree.out ELSE
    IF Raised(tkn) THEN tkn.out
    ELSE RuntimeError("trailing tokens in formula")))

---------------------------------------------------------------------------
(* The texts handed to tokenize and to parse_formula: every text of at     *)
(* most MaxLen characters over TextChars, and the texts of the tests.      *)

MaxLen == 4

TextChars ==
    {"a", "L", "&", "|", "[", "]", "(", ")", ",", ".", " ", "\n", "?"}

ShortTexts == UNION {[1 .. n -> TextChars] : n \in 0 .. MaxLen}

TestTexts == {
    \* TokenizeTest.test_tokenize_multiple_symbols
    <<"a", "'", " ", "b", "0", " ", "c", "c", "c", "c">>,
    \* TokenizeTest.test_tokenize_conjunction
    <<"a", "&", "b">>,
    \* ParseTest.test_parsing_another_symbol
    <<"s", "8", "D", "V", "Y", "_", "B", "U", "v", "y", "b", "J", "H", "-",
      "V", "D", "N", "S", "'", "J", "h", "j", "S">>,
    \* ParseTest.test_parsing_conjunction
    <<"a", " ", "&", " ", "a", "'">>,
    \* ParseTest.test_parsing_disjunction
    <<"b", " ", "|", " ", "b", "0">>,
    \* ParseTest.test_parsing_precedence
    <<"x", " ", "&", " ", "y", " ", "|", " ", "z">>,
    \* FormulaParseTest.test_parsing_precedence
    <<"x", " ", "&", " ", "y", " ", "|", " ", "z", " ", "-", ">", " ", "m">>,
    \* FormulaParseTest.test_parsing_brackets
    <<"[", "x", " ", "|", " ", "y", "]", " ", "&", " ", "z">>,
    \* FormulaParseTest.test_parsing_multiple_conjunction
    <<"a", " ", "&", " ", "b", " ", "&", " ", "c">>,
    \* FormulaParseTest.test_parsing_multi_disjunction
    <<"a", " ", "|", " ", "b", " ", "|", " ", "c">>,
    \* FormulaParseTest.test_parsing_multi_implication
    <<"a", " ", "-", ">", " ", "b", " ", "-", ">", " ", "c">>,
    \* FormulaParseTest.test_parsing_lambda
    <<"L", "x", ".", "L", "y", ".", "[", "x", " ", "&", " ", "y", "]">>,
    \* FormulaParseTest.test_parsing_call
    <<"H", "a", "p", "p", "y", "(", "x", ")">>,
    \* FormulaParseTest.test_parsing_call_with_several_args
    <<"B", "e", "t", "w", "e", "e", "n", "(", "x", ",", " ", "y", " ", "&",
      " ", "z", ",", " ", "[", "C", "a", "p", "i", "t", "a", "l", "(", "f",
      "r", "a", "n", "c", "e", ")", "]", ")">>,
    \* FormulaParseErrorTest.test_parsing_hanging_bracket
    <<"[", "x", " ", "|", " ", "y">>,
    \* FormulaParseErrorTest.test_unknown_token
    <<"L", "x", ".", "x", "?">>,
    \* a conjunction as the left operand of a conjunction
    <<"[", "a", " ", "&", " ", "b", "]", " ", "&", " ", "c">>,
    \* a name that begins with the letter of the lambda
    <<"L", "o", "v", "e">>,
    \* a formula on two lines
    <<"a", " ", "&", "\n", "b">>,
    \* a formula on two lines, the newline after a blank
    <<"a", " ", "\n", " ", "b">>,
    \* FormulaParseErrorTest.test_missing_operand
    <<"a", " ", "|", " ">>,
    <<"b", " ", "&", " ">>,
    <<"|", " ", "a">>,
    <<"&", " ", "b">>,
    \* FormulaParseErrorTest.test_lambda_missing_body
    <<"L", "x", ".">>,
    \* a formula followed by another
    <<"x", " ", "&", " ", "y", " ", "z">>,
    <<"H", "a", "p", "p", "y", "(", "x", ")", " ", "[", "a", "]">>,
    \* a call that is not closed
    <<"f", "(", "a", ",", " ", "b">> }

\* The names the generated texts are written with.
SymbolNames == {<<"x">>, <<"y">>, <<"m">>, <<"a", "'">>, <<"b", "0">>}

\* l op r, the operator between blanks.
Infix(l, op, r) == l \o <<" ">> \o op \o <<" ">> \o r

\* 'x & y | z', 'x & y | z -> m' and '[x | y] & z', for all names.
PrecedenceTexts ==
    {Infix(Infix(x, <<"&">>, y), <<"|">>, z) :
         x \in SymbolNames, y \in SymbolNames, z \in SymbolNames}
    \cup
    {Infix(Infix(Infix(x, <<"&">>, y), <<"|">>, z), <<"-", ">">>, m) :
         x \in SymbolNames, y \in SymbolNames, z \in SymbolNames,
         m \in {<<"m">>, <<"x">>}}
    \cup
    {Infix(<<"[">> \o Infix(x, <<"|">>, y) \o <<"]">>, <<"&">>, z) :
         x \in SymbolNames, y \in SymbolNames, z \in SymbolNames}

\* A bound on the number of operators of a chain.
MaxChain == 3

ChainNames == <<"a", "b", "c", "d", "e", "f", "g", "h">>

ChainOperators == {<<"&">>, <<"|">>, <<"-", ">">>}

\* 'a op b op c ...', with n operators.
RECURSIVE Chain(_, _)
Chain(op, n) ==
    IF n = 0
    THEN <<ChainNames[1]>>
    ELSE Infix(Chain(op, n - 1), op, <<ChainNames[n + 1]>>)

ChainTexts == {Chain(op, n) : op \in ChainOperators, n \in 1 .. MaxChain}

\* A bound on the number of arguments of a call.
MaxArgs == 3

\* 'f(a, b, ...)', with n arguments.
RECURSIVE ArgumentList(_)
ArgumentList(n) ==
    IF n = 0 THEN << >>
    ELSE IF n = 1 THEN <<ChainNames[1]>>
    ELSE ArgumentList(n - 1) \o <<",", " ", ChainNames[n]>>

CallText(n) == <<"f", "(">> \o ArgumentList(n) \o <<")">>

CallTexts == {CallText(n) : n \in 0 .. MaxArgs}

Texts ==
    ShortTexts \cup TestTexts \cup PrecedenceTexts \cup ChainTexts
        \cup CallTexts

InitParse ==
    /\ InterpIdle
    /\ ParseIdle
    /\ call \in {[op |-> "parse_formula", formula |-> t] : t \in Texts}
    /\ ret = NoFormula
    /\ term = NoFormula
    /\ tick = 0

\* One whole call parse_formula(formula).
ParseFormula ==
    /\ call.op = "parse_formula"
    /\ ret = NoFormula
    /\ ret' = parse_formula(call.formula)
    /\ UNCHANGED <<interp_vars, parse_vars, call, term, tick>>

NextParse == ParseFormula

SpecParse == InitParse /\ [][NextParse]_vars

Parsed == call.op = "parse_formula" /\ ret # NoFormula

\* The tree the parser returned for the text.
ParsesTo(text, tree) ==
    (Parsed /\ call.formula = text) => ret = Outcome("ok", tree)

---------------------------------------------------------------------------
(* The printer of formula trees (spec.md 4.1, FormulaToStrTest), over the  *)
(* trees parse_formula builds, and the round trip through it.              *)

\* How tightly the top of a tree binds: a binder least, then OR, then AND,
\* then the atoms.
Precedence(tree) ==
    CASE tree.tag = "LambdaNode" -> 1
      [] tree.tag = "OrNode"     -> 2
      [] tree.tag = "AndNode"    -> 3
      [] OTHER                   -> 4

RECURSIVE unparse_formula(_), unparse_args(_)

\* An operand of a connective of precedence p: in brackets when its own
\* top binds less tightly than p.
Bracketed(tree, p) ==
    IF Precedence(tree) < p
    THEN <<"[">> \o unparse_formula(tree) \o <<"]">>
    ELSE unparse_formula(tree)

unparse_formula(tree) ==
    CASE tree.tag = "VarNode" -> tree.value
      [] tree.tag = "AndNode" ->
            Bracketed(tree.left, 3) \o <<" ", "&", " ">>
                \o Bracketed(tree.right, 3)
      [] tree.tag = "OrNode" ->
            Bracketed(tree.left, 2) \o <<" ", "|", " ">>
                \o Bracketed(tree.right, 2)
      [] tree.tag = "LambdaNode" ->
            <<"L">> \o tree.parameter.value \o <<".">>
                \o unparse_formula(tree.body)
      [] tree.tag = "CallNode" ->
            unparse_formula(tree.symbol) \o <<"(">>
                \o unparse_args(tree.args.items) \o <<")">>

\* The arguments of a call, separated by a comma and a blank.
unparse_args(items) ==
    IF items = << >> THEN << >>
    ELSE IF Len(items) = 1 THEN unparse_formula(items[1])
    ELSE unparse_formula(items[1]) \o <<",", " ">>
             \o unparse_args(Tail(items))

InitRoundTrip ==
    /\ InterpIdle
    /\ ParseIdle
    /\ call \in {[op |-> "round_trip", formula |-> t] : t \in Texts}
    /\ ret = NoFormula
    /\ term = NoFormula
    /\ tick = 0

\* tree = parse_formula(formula)
RoundTripParse ==
    /\ call.op = "round_trip"
    /\ ret = NoFormula
    /\ ret' = [tree |-> parse_formula(call.formula)]
    /\ UNCHANGED <<interp_vars, parse_vars, call, term, tick>>

\* printed = str(tree)
RoundTripPrint ==
    /\ call.op = "round_trip"
    /\ ret # NoFormula
    /\ DOMAIN ret = {"tree"}
    /\ ret.tree.st = "ok"
    /\ ret' = [tree |-> ret.tree, printed |-> unparse_formula(ret.tree.val)]
    /\ UNCHANGED <<interp_vars, parse_vars, call, term, tick>>

\* again = parse_formula(printed)
RoundTripReparse ==
    /\ call.op = "round_trip"
    /\ ret # NoFormula
    /\ DOMAIN ret = {"tree", "printed"}
    /\ ret' = [tree |-> ret.tree, printed |-> ret.printed,
               again |-> parse_formula(ret.printed)]
    /\ UNCHANGED <<interp_vars, parse_vars, call, term, tick>>

NextRoundTrip == RoundTripParse \/ RoundTripPrint \/ RoundTripReparse

SpecRoundTrip == InitRoundTrip /\ [][NextRoundTrip]_vars

\* C13: for every tree the parser can produce, parsing the printed form of
\* the tree yields a tree equal to it, the printer bracketing a subtree
\* only when its top binds less tightly than its parent's operator; so it
\* is for a tree with a connective of the same precedence as left operand,
\* as the tree parsed from '[a & b] & c'.
PrintedFormParsesBack ==
    (call.op = "round_trip" /\ ret # NoFormula /\ "again" \in DOMAIN ret) =>
        ret.again = ret.tree

---------------------------------------------------------------------------
(* What the parser is to return.                                           *)

\* The node of an implication, which the tests of montague.formula build;
\* montague/parsing.py defines no such node.
IfNode(left, right) == [tag |-> "IfNode", left |-> left, right |-> right]

\* C14: parse_formula binds AND tighter than OR and OR tighter than
\* IF-THEN: for all symbols 'x & y | z' parses to Or(And(x, y), z) and
\* 'x & y | z -> m' to IfThen(Or(And(x, y), z), m), and brackets override
\* the precedence: '[x | y] & z' parses to And(Or(x, y), z).
ParsesWithPrecedence ==
    Parsed =>
      \A x \in SymbolNames, y \in SymbolNames, z \in SymbolNames :
        /\ ParsesTo(Infix(Infix(x, <<"&">>, y), <<"|">>, z),
                    OrNode(AndNode(VarNode(x), VarNode(y)), VarNode(z)))
        /\ \A m \in {<<"m">>, <<"x">>} :
             ParsesTo(Infix(Infix(Infix(x, <<"&">>, y), <<"|">>, z),
                            <<"-", ">">>, m),
                      IfNode(OrNode(AndNode(VarNode(x), VarNode(y)),
                                    VarNode(z)),
                             VarNode(m)))
        /\ ParsesTo(Infix(<<"[">> \o Infix(x, <<"|">>, y) \o <<"]">>,
                          <<"&">>, z),
                    AndNode(OrNode(VarNode(x), VarNode(y)), VarNode(z)))

\* The node of a connective, by its operator.
Connective(op, left, right) ==
    CASE op = <<"&">>      -> AndNode(left, right)
      [] op = <<"|">>      -> OrNode(left, right)
      [] op = <<"-", ">">> -> IfNode(left, right)

\* The names from the i-th to the (n + 1)-th joined by op, nested to the
\* right: a op (b op (c ...)).
RECURSIVE RightNested(_, _, _)
RightNested(op, i, n) ==
    IF i = n + 1
    THEN VarNode(<<ChainNames[i]>>)
    ELSE Connective(op, VarNode(<<ChainNames[i]>>),
                    RightNested(op, i + 1, n))

\* C15: a chain of one binary connective parses, and associates to the
\* right, whatever its length of two or more operators: 'a & b & c' is
\* And(a, And(b, c)), 'a | b | c' is Or(a, Or(b, c)) and 'a -> b -> c' is
\* IfThen(a, IfThen(b, c)).
ChainsAssociateRight ==
    Parsed =>
      \A op \in ChainOperators, n \in 2 .. MaxChain :
        ParsesTo(Chain(op, n), RightNested(op, 1, n))

\* Call(Call(Call(f, a), b), ...), the call of f on the first n names one
\* at a time; the second field of each node is the one argument.
RECURSIVE LeftNestedCall(_)
LeftNestedCall(n) ==
    IF n = 0
    THEN VarNode(<<"f">>)
    ELSE CallNode(LeftNestedCall(n - 1), VarNode(<<ChainNames[n]>>))

\* Some node of the tree holds a list.
RECURSIVE HoldsList(_)
HoldsList(tree) ==
    CASE tree.tag = "VarNode" -> FALSE
      [] tree.tag \in {"AndNode", "OrNode"} ->
            HoldsList(tree.left) \/ HoldsList(tree.right)
      [] tree.tag = "LambdaNode" -> HoldsList(tree.body)
      [] tree.tag = "CallNode" ->
            \/ "k" \in DOMAIN tree.args
            \/ HoldsList(tree.symbol)
            \/ HoldsList(tree.args)

\* C16: a call with n >= 1 arguments parses to a left-nested chain of n
\* Call nodes of one argument each, the arguments in source order:
\* 'f(a)' is Call(Var(f), a) and 'f(a, b)' is Call(Call(Var(f), a), b);
\* no node of a parsed tree holds a list of arguments.
CallsNestLeft ==
    Parsed =>
      /\ \A n \in 1 .. MaxArgs : ParsesTo(CallText(n), LeftNestedCall(n))
      /\ ret.st = "ok" => ~HoldsList(ret.val)

---------------------------------------------------------------------------
(* Malformed texts.                                                        *)

\* The characters some token other than MISMATCH can hold.
TokenChars == SymbolChar \cup DOMAIN Punctuation \cup Whitespace

\* The text without the whitespace at its end.
RECURSIVE Stripped(_)
Stripped(text) ==
    IF text # << >> /\ text[Len(text)] \in Whitespace
    THEN Stripped(SubSeq(text, 1, Len(text) - 1))
    ELSE text

Count(text, c) == Cardinality({i \in DOMAIN text : text[i] = c})

\* The text ends where an operand, the body of a lambda or a closing
\* bracket is still due.
EndsEarly(text) ==
    \/ /\ Stripped(text) # << >>
       /\ Stripped(text)[Len(Stripped(text))] \in {"&", "|", "."}
    \/ Count(text, "[") > Count(text, "]")

\* The text is a complete formula, a blank, and a complete formula.
Juxtaposed(text) ==
    \E i \in DOMAIN text :
        /\ text[i] = " "
        /\ parse_formula(SubSeq(text, 1, i - 1)).st = "ok"
        /\ parse_formula(SubSeq(text, i + 1, Len(text))).st = "ok"

Malformed(text) ==
    \/ text = << >>
    \/ EndsEarly(text)
    \/ Juxtaposed(text)
    \/ \E i \in DOMAIN text : text[i] \notin TokenChars

---------------------------------------------------------------------------
(* Names.                                                                  *)

\* The text is one run  [A-Za-z][A-Za-z0-9_'-]* .
IsName(text) ==
    /\ text # << >>
    /\ text[1] \in Letter
    /\ \A i \in DOMAIN text : text[i] \in SymbolChar

\* The letters of the binders, which alone are no symbols (spec.md 4.2).
BinderLetters == {<<"L">>, <<"A">>, <<"E">>}

\* C18: every maximal run of characters matching [A-Za-z][A-Za-z0-9_'-]*
\* is one SYMBOL token and parses to a Var with the whole run as its name,
\* unless the run is a bare binder letter; a longer name that begins with
\* the binder letter L, like `Love`, is one symbol, not the lambda
\* followed by a shorter symbol.
NamesAreOneSymbol ==
    (Parsed /\ IsName(call.formula) /\ call.formula \notin BinderLetters) =>
        /\ next_token(tokenize(call.formula)).out
              = Outcome("ok", Token("SYMBOL", call.formula, 1, 0))
        /\ ret = Outcome("ok", VarNode(call.formula))

---------------------------------------------------------------------------
(* The tokenizer as a state machine: a caller draws from tokenize(formula) *)
(* with next() until the generator ends.  hist holds, for every call, its  *)
(* outcome and the offset at which the match it ended on began.            *)

InitTokenize ==
    /\ InterpIdle
    /\ PureIdle
    /\ gen \in {tokenize(t) : t \in Texts}
    /\ iter = NoCall
    /\ hist = << >>

\* next(gen)
TokenizeNext ==
    /\ gen # NoCall
    /\ ~gen.done
    /\ LET r == next_token(gen)
       IN  /\ gen' = r.gen
           /\ hist' = Append(hist, [out |-> r.out, at |-> r.at])
    /\ UNCHANGED <<interp_vars, pure_vars, iter>>

NextTokenize == TokenizeNext

SpecTokenize == InitTokenize /\ [][NextTokenize]_vars

\* The offset at which the line that holds offset i begins: just after
\* the last newline before i.
RECURSIVE LineStart(_, _)
LineStart(text, i) ==
    IF i = 0 \/ text[i] = "\n" THEN i ELSE LineStart(text, i - 1)

\* The number of newlines before offset i.
NewlinesBefore(text, i) ==
    Cardinality({j \in 1 .. i : text[j] = "\n"})

\* C19: for every text, texts with newlines included, tokenize yields each
\* token with line = 1 + the number of newlines before the token and
\* column = the offset of the token from the start of its line; a newline
\* advances the line counter and moves the origin of the columns, and does
\* not stop the tokenization.
TokensCarryLineAndColumn ==
    gen # NoCall =>
      \A i \in DOMAIN hist :
        /\ hist[i].out.st # "UnboundLocalError"
        /\ hist[i].out.st = "ok" =>
             /\ hist[i].out.val.line
                   = 1 + NewlinesBefore(gen.formula, hist[i].at)
             /\ hist[i].out.val.column
                   = hist[i].at - LineStart(gen.formula, hist[i].at)

---------------------------------------------------------------------------
(* IteratorWithMemory as a state machine: a caller wraps the iterator of a *)
(* list and calls next() and push() on the wrapper, push() only when the   *)
(* value pushed before has been taken back.  hist holds the calls.         *)

\* A Python int.
VInt(n) == [k |-> "int", n |-> n]

\* Bounds on the length of the wrapped list and on the number of calls.
MaxItems == 2
MaxCalls == 4

Items == {VInt(1), VInt(2), VNone}

\* IteratorWithMemoryTest.test_next_and_push wraps [1, 2, 3] and pushes 7.
Lists ==
    UNION {[1 .. n -> Items] : n \in 0 .. MaxItems}
        \cup {<<VInt(1), VInt(2), VInt(3)>>}

Pushed == {VInt(7), VInt(1), VNone}

InitIterator ==
    /\ InterpIdle
    /\ PureIdle
    /\ gen = NoCall
    /\ iter \in {IteratorWithMemory(list_iterator(L)) : L \in Lists}
    /\ hist = << >>

\* A value has been pushed and not yet taken back.
Pending == hist # << >> /\ hist[Len(hist)].op = "push"

\* next(it)
IteratorNext ==
    /\ iter # NoCall
    /\ Len(hist) < MaxCalls
    /\ LET r == IteratorWithMemory_next(iter)
       IN  /\ iter' = r.tz
           /\ hist' = Append(hist, [op |-> "next", out |-> r.out])
    /\ UNCHANGED <<interp_vars, pure_vars, gen>>

\* it.push(v)
IteratorPush(v) ==
    /\ iter # NoCall
    /\ Len(hist) < MaxCalls
    /\ ~Pending
    /\ iter' = IteratorWithMemory_push(iter, v)
    /\ hist' = Append(hist, [op |-> "push", out |-> Outcome("ok", v)])
    /\ UNCHANGED <<interp_vars, pure_vars, gen>>

Push == \E v \in Pushed : IteratorPush(v)

NextIterator == IteratorNext \/ Push

SpecIterator == InitIterator /\ [][NextIterator]_vars

\* The calls of next() that did not come right after a push(), in order.
Drawn ==
    LET idx == {i \in DOMAIN hist :
                   /\ hist[i].op = "next"
                   /\ i = 1 \/ hist[i - 1].op # "push"}
        RECURSIVE InOrder(_)
        InOrder(i) ==
            IF i > Len(hist) THEN << >>
            ELSE IF i \in idx THEN <<hist[i].out>> \o InOrder(i + 1)
            ELSE InOrder(i + 1)
    IN  InOrder(1)

\* What the k-th call of next() on the iterator of the list returns.
Underlying(k) ==
    LET L == iter.iterator.items
    IN  IF k <= Len(L) THEN Outcome("ok", L[k]) ELSE StopIteration

\* C20: whatever the list and however next() and push() are interleaved,
\* push() being called only when no pushed value is pending, the call of
\* next() after push(v) returns v, and the other calls of next() return
\* the elements of the list in order, none skipped and none twice.
PushedValueComesBack ==
    iter # NoCall =>
      /\ \A i \in DOMAIN hist :
            (i > 1 /\ hist[i - 1].op = "push") => hist[i].out = hist[i - 1].out
      /\ \A k \in DOMAIN Drawn : Drawn[k] = Underlying(k)

\* The same for the pushes of a value other than None.
PushedObjectComesBack ==
    (iter # NoCall /\ \A i \in DOMAIN hist :
                          hist[i].op = "push" => hist[i].out.val # VNone)
        => PushedValueComesBack

\* After every call of next() the memory is empty.  Each push() of the
\* parser (match_e, match_symbol_postfix, match_arglist, match_term)
\* follows a next() of the same function with no call between the two, so
\* the parser never pushes onto a pending value.
MemoryEmptyAfterNext ==
    (iter # NoCall /\ hist # << >> /\ hist[Len(hist)].op = "next") =>
        iter.memory = VNone

===========================================================================
